---- MODULE Spec2Model ----
(***************************************************************************)
(* The LL(1) recursive-descent parser of src/parser.py as a state machine. *)
(*                                                                         *)
(* A Parser object is a record: the tokens its lexer has produced so far,  *)
(* the lookahead `token`, the Python call stack of the production methods  *)
(* (one frame per active call, with the position inside the method), the   *)
(* value handed back by the call that returned last, and the outcome of    *)
(* parse(): an AST or a ParserError.                                       *)
(*                                                                         *)
(* Two independent Parser instances run side by side: `parser` reads a     *)
(* token stream, `twin` reads a copy of it in which every lambda           *)
(* introducer may be spelled the other way ('λ' for '@', '@' for 'λ').     *)
(***************************************************************************)
EXTENDS Naturals, Sequences, FiniteSets

VARIABLES parser, twin

vars == <<parser, twin>>

(***************************************************************************)
(* Bounds.                                                                 *)
(***************************************************************************)
\* The lexer produces at most this many tokens of its own choice; from then
\* on it answers every call of next() with the end-marker.
MaxTokens == 7

(***************************************************************************)
(* The collaborators: tokens, the lexer, the AST constructors.             *)
(***************************************************************************)
None == [kind |-> "None"]

Names == {"x", "y"}

Token(type, value) == [type |-> type, value |-> value]

EOF == Token("EOF", "")

Tokens ==
    {Token(t, t) : t \in {"(", ")", "λ", "@", "."}}
        \cup {Token("SYMBOL", n) : n \in Names}
        \cup {EOF}

\* What lexer.next() may answer to a parser that has pulled Len(p.lexer)
\* tokens so far.
LexerNext(p) == IF Len(p.lexer) < MaxTokens THEN Tokens ELSE {EOF}

\* The same token in either spelling of the lambda introducer.
Spellings(t) ==
    IF t.type \in {"λ", "@"} THEN {Token("λ", "λ"), Token("@", "@")} ELSE {t}

Variable(name) == [kind |-> "Variable", name |-> name]

Application(left_expression, right_expression) ==
    [kind |-> "Application",
     left_expression |-> left_expression,
     right_expression |-> right_expression]

Abstraction(variable, expression) ==
    [kind |-> "Abstraction", variable |-> variable, expression |-> expression]

(***************************************************************************)
(* The call stack.                                                         *)
(***************************************************************************)
\* A frame of method fn at position pc; start is the number of tokens pulled
\* when the method was entered (the index of its first token in p.lexer),
\* local the one local variable a method keeps across a call.
Frame(fn, pc, start) == [fn |-> fn, pc |-> pc, start |-> start, local |-> None]

Top(p) == p.stack[Len(p.stack)]

Pop(p) == SubSeq(p.stack, 1, Len(p.stack) - 1)

\* self.m(): the caller moves to position pc and a frame of m is pushed.
Call(p, pc, fn) ==
    [p EXCEPT !.stack = Append(Pop(p) \o <<[Top(p) EXCEPT !.pc = pc]>>,
                               Frame(fn, "enter", Len(p.lexer))),
              !.ret = None]

\* return value: the frame is popped and the value handed to the caller.
Return(p, value) == [p EXCEPT !.stack = Pop(p), !.ret = value]

\* The caller stores the returned value in its local variable.
Store(p) ==
    [p EXCEPT !.stack = Pop(p) \o <<[Top(p) EXCEPT !.local = p.ret]>>,
              !.ret = None]

(***************************************************************************)
(* Parser                                                                  *)
(***************************************************************************)
\* Parser.__init__: keeps the lexer and pulls the first lookahead.
__init__(first) ==
    [lexer |-> <<first>>,
     token |-> first,
     consumed |-> 0,
     stack |-> <<>>,
     ret |-> None,
     status |-> "ready",
     result |-> None,
     error |-> None]

\* ParserError(expected, found)
ParserError(expected, found) == [expected |-> expected, found |-> found]

\* Parser._error: raises; the exception unwinds every frame up to the
\* caller of parse(), there is no handler in the parser.
_error(p, expected) ==
    [p EXCEPT !.status = "raised",
              !.error = ParserError(expected, p.token.type),
              !.stack = <<>>,
              !.ret = None]

\* _advance with the assignment to self.token lost: the lexer is asked for
\* its next token and the lookahead stays what it was (a variant C7 must
\* tell from the code).
_advance_keeps_token(p, next) ==
    [p EXCEPT !.lexer = Append(@, next),
              !.consumed = @ + 1]

\* Parser._advance: self.token = self.lexer.next(); the lexer answers next.
_advance(p, next) ==
    [p EXCEPT !.token = next,
              !.lexer = Append(@, next),
              !.consumed = @ + 1]

\* _eat reporting the token it found as the one it expected (a variant C3
\* must tell from the code).
_eat_reports_found(p, prediction, next) ==
    IF p.token.type = prediction
    THEN _advance(p, next)
    ELSE _error(p, p.token.type)

\* _eat advancing before it compares, so that a mismatch is reported one
\* token late (a variant C5 must tell from the code).
_eat_advances_first(p, prediction, next) ==
    IF p.token.type = prediction
    THEN _advance(p, next)
    ELSE _error(_advance(p, next), prediction)

\* _eat taking the end of the input for any missing token (a variant C9
\* must tell from the code).
_eat_closes_at_end(p, prediction, next) ==
    IF p.token.type \in {prediction, "EOF"}
    THEN _advance(p, next)
    ELSE _error(p, prediction)

\* Parser._eat
_eat(p, prediction, next) ==
    IF p.token.type = prediction
    THEN _advance(p, next)
    ELSE _error(p, prediction)

\* _expression without its else-branch, leaving every other token to
\* _variable (a variant C2 must tell from the code).
_expression_defaults_to_variable(p) ==
    IF Top(p).pc = "enter"
    THEN IF p.token.type = "("
         THEN Call(p, "return", "_application")
         ELSE IF p.token.type \in {"λ", "@"}
         THEN Call(p, "return", "_abstraction")
         ELSE Call(p, "return", "_variable")
    ELSE Return(p, p.ret)

\* _expression sending ')' to _application as well (a variant C10 must tell
\* from the code).
_expression_either_parenthesis(p) ==
    IF Top(p).pc = "enter"
    THEN IF p.token.type \in {"(", ")"}
         THEN Call(p, "return", "_application")
         ELSE IF p.token.type \in {"λ", "@"}
         THEN Call(p, "return", "_abstraction")
         ELSE IF p.token.type = "SYMBOL"
         THEN Call(p, "return", "_variable")
         ELSE _error(p, "(, λ, @, or SYMBOL")
    ELSE Return(p, p.ret)

\* Parser._expression: the dispatch on the lookahead, then the return of
\* what the chosen production returned.
_expression(p) ==
    IF Top(p).pc = "enter"
    THEN IF p.token.type = "("
         THEN Call(p, "return", "_application")
         ELSE IF p.token.type \in {"λ", "@"}
         THEN Call(p, "return", "_abstraction")
         ELSE IF p.token.type = "SYMBOL"
         THEN Call(p, "return", "_variable")
         ELSE _error(p, "(, λ, @, or SYMBOL")
    ELSE Return(p, p.ret)

\* Parser._variable
_variable(p, next) ==
    IF p.token.type = "SYMBOL"
    THEN Return(_advance(p, next), Variable(p.token.value))
    ELSE _error(p, "SYMBOL")

\* _application building its node with the two sub-expressions exchanged
\* (a variant C1 must tell from the code).
_application_swapped(p, next) ==
    IF Top(p).pc = "enter"
    THEN IF p.token.type = "("
         THEN Call(_advance(p, next), "left_expression", "_expression")
         ELSE _error(p, "(")
    ELSE IF Top(p).pc = "left_expression"
    THEN Call(Store(p), "right_expression", "_expression")
    ELSE LET eaten == _eat(p, ")", next)
         IN  IF eaten.status = "raised"
             THEN eaten
             ELSE Return(eaten, Application(p.ret, Top(p).local))

\* Parser._application: up to the first call, between the two calls of
\* _expression, and from the second call's return to the end.
_application(p, next) ==
    IF Top(p).pc = "enter"
    THEN IF p.token.type = "("
         THEN Call(_advance(p, next), "left_expression", "_expression")
         ELSE _error(p, "(")
    ELSE IF Top(p).pc = "left_expression"
    THEN Call(Store(p), "right_expression", "_expression")
    ELSE LET eaten == _eat(p, ")", next)
         IN  IF eaten.status = "raised"
             THEN eaten
             ELSE Return(eaten, Application(Top(p).local, p.ret))

\* _abstraction testing for 'λ' alone, '@' forgotten (a variant C6 must tell
\* from the code).
_abstraction_lambda_only(p, next) ==
    IF Top(p).pc = "enter"
    THEN IF p.token.type = "λ"
         THEN Call(_advance(p, next), "variable", "_variable")
         ELSE _error(p, "λ or @")
    ELSE IF Top(p).pc = "variable"
    THEN LET eaten == _eat(Store(p), ".", next)
         IN  IF eaten.status = "raised"
             THEN eaten
             ELSE Call(eaten, "expression", "_expression")
    ELSE Return(p, Abstraction(Top(p).local, p.ret))

\* _abstraction parsing its body with _variable instead of _expression (a
\* variant C8 must tell from the code).
_abstraction_variable_body(p, next) ==
    IF Top(p).pc = "enter"
    THEN IF p.token.type \in {"λ", "@"}
         THEN Call(_advance(p, next), "variable", "_variable")
         ELSE _error(p, "λ or @")
    ELSE IF Top(p).pc = "variable"
    THEN LET eaten == _eat(Store(p), ".", next)
         IN  IF eaten.status = "raised"
             THEN eaten
             ELSE Call(eaten, "expression", "_variable")
    ELSE Return(p, Abstraction(Top(p).local, p.ret))

\* Parser._abstraction: up to the call of _variable, from its return to the
\* call of _expression, and the return of the node.
_abstraction(p, next) ==
    IF Top(p).pc = "enter"
    THEN IF p.token.type \in {"λ", "@"}
         THEN Call(_advance(p, next), "variable", "_variable")
         ELSE _error(p, "λ or @")
    ELSE IF Top(p).pc = "variable"
    THEN LET eaten == _eat(Store(p), ".", next)
         IN  IF eaten.status = "raised"
             THEN eaten
             ELSE Call(eaten, "expression", "_expression")
    ELSE Return(p, Abstraction(Top(p).local, p.ret))

\* parse requiring the end-marker after the top-level expression (a variant
\* C4 must tell from the code).
parse_to_the_end(p) ==
    IF p.status = "ready"
    THEN [p EXCEPT !.status = "running",
                   !.stack = <<Frame("parse", "return", Len(p.lexer)),
                               Frame("_expression", "enter", Len(p.lexer))>>]
    ELSE IF p.token.type # "EOF"
    THEN _error(p, "EOF")
    ELSE [p EXCEPT !.status = "returned",
                   !.result = p.ret,
                   !.stack = <<>>,
                   !.ret = None]

\* Parser.parse: calls _expression and returns what it returned.
parse(p) ==
    IF p.status = "ready"
    THEN [p EXCEPT !.status = "running",
                   !.stack = <<Frame("parse", "return", Len(p.lexer)),
                               Frame("_expression", "enter", Len(p.lexer))>>]
    ELSE [p EXCEPT !.status = "returned",
                   !.result = p.ret,
                   !.stack = <<>>,
                   !.ret = None]

(***************************************************************************)
(* The state machine.                                                      *)
(***************************************************************************)
Running(p, fn) == p.status = "running" /\ Top(p).fn = fn

\* One step of the interpreter on p: the method of the top frame runs up to
\* its next call, return or raise.  A parser that has returned or raised
\* does nothing more.
Step(p, next) ==
    IF p.status = "ready" THEN parse(p)
    ELSE IF p.status # "running" THEN p
    ELSE IF Top(p).fn = "parse" THEN parse(p)
    ELSE IF Top(p).fn = "_expression" THEN _expression(p)
    ELSE IF Top(p).fn = "_variable" THEN _variable(p, next)
    ELSE IF Top(p).fn = "_application" THEN _application(p, next)
    ELSE _abstraction(p, next)

\* Both instances take their step; the lexers answer with the same token up
\* to the spelling of the lambda introducer.
Both ==
    \E next \in LexerNext(parser) :
        \E other \in Spellings(next) :
            /\ parser' = Step(parser, next)
            /\ twin' = Step(twin, other)

Init ==
    \E first \in Tokens :
        \E other \in Spellings(first) :
            /\ parser = __init__(first)
            /\ twin = __init__(other)

Parse == parser.status = "ready" /\ Both

ParseReturn == Running(parser, "parse") /\ Both

Expression == Running(parser, "_expression") /\ Both

VariableStep == Running(parser, "_variable") /\ Both

ApplicationStep == Running(parser, "_application") /\ Both

AbstractionStep == Running(parser, "_abstraction") /\ Both

Next ==
    \/ Parse
    \/ ParseReturn
    \/ Expression
    \/ VariableStep
    \/ ApplicationStep
    \/ AbstractionStep

Spec == Init /\ [][Next]_vars

\* parse() is called once and runs to its end: every step that can be taken
\* is eventually taken (single-threaded, nothing suspends the interpreter).
LiveSpec == Spec /\ WF_vars(Next)

(***************************************************************************)
(* The grammar, as the reference the parser is compared with.              *)
(*   expression  := application | abstraction | variable                   *)
(*   application := '(' expression expression ')'                          *)
(*   abstraction := ('λ' | '@') variable '.' expression                    *)
(*   variable    := SYMBOL                                                 *)
(***************************************************************************)
\* The token sequences the grammar derives for the AST e.
RECURSIVE Derivations(_)
Derivations(e) ==
    IF e.kind = "Variable"
    THEN {<<Token("SYMBOL", e.name)>>}
    ELSE IF e.kind = "Application"
    THEN {<<Token("(", "(")>> \o l \o r \o <<Token(")", ")")>> :
             l \in Derivations(e.left_expression),
             r \in Derivations(e.right_expression)}
    ELSE {<<i>> \o v \o <<Token(".", ".")>> \o b :
             i \in Spellings(Token("λ", "λ")),
             v \in Derivations(e.variable),
             b \in Derivations(e.expression)}

\* The ASTs whose derivations are n tokens long.
RECURSIVE Expressions(_)
Expressions(n) ==
    IF n = 1
    THEN {Variable(name) : name \in Names}
    ELSE IF n < 4
    THEN {}
    ELSE UNION {{Application(l, r) :
                    l \in Expressions(k), r \in Expressions(n - 2 - k)} :
                        k \in 1..(n - 3)}
            \cup {Abstraction(Variable(name), b) :
                     name \in Names, b \in Expressions(n - 3)}

\* Every derivation of at most MaxTokens tokens, with its AST.
Derivable ==
    UNION {{[ast |-> e, tokens |-> s] : s \in Derivations(e)} :
              e \in UNION {Expressions(n) : n \in 1..MaxTokens}}

IsPrefix(s, t) == Len(s) <= Len(t) /\ SubSeq(t, 1, Len(s)) = s

\* The tokens the parser has moved past.
Consumed(p) == SubSeq(p.lexer, 1, p.consumed)

Done(p) == p.status \in {"returned", "raised"}

(***************************************************************************)
(* The claims.                                                             *)
(***************************************************************************)

\* C1: for every token sequence the grammar derives, parse() succeeds and
\* returns exactly the AST of that derivation: the parser never raises while
\* the tokens pulled so far are a prefix of a derivation followed by the
\* end-marker, and when parse() returns, the tokens it consumed are a
\* derivation of the returned AST (SYMBOL gives Variable with the token's
\* value, '(' e1 e2 ')' gives Application with e1 in function position and
\* e2 in argument position, λ/@ v '.' b gives Abstraction of v and b).
C1_ParseReturnsTheDerivation ==
    /\ parser.status = "returned" =>
           Consumed(parser) \in Derivations(parser.result)
    /\ \A d \in Derivable :
           IsPrefix(parser.lexer, d.tokens \o <<EOF>>) =>
               /\ parser.status # "raised"
               /\ parser.status = "returned" => parser.result = d.ast

\* C1 happens: ( λx.y x ) has been parsed, the abstraction in function
\* position and the variable in argument position.
C1_Witness ==
    /\ parser.status = "returned"
    /\ parser.token = EOF
    /\ parser.result =
           Application(Abstraction(Variable("x"), Variable("y")),
                       Variable("x"))

\* C4: parse() makes no end-of-stream check: when the tokens pulled start
\* with a complete derivation followed by one more token of any type, the
\* parser does not raise, pulls nothing beyond that token, and returns the
\* AST of the derivation with that token as the lookahead.
C4_TrailingTokensIgnored ==
    \A d \in Derivable :
        (IsPrefix(d.tokens, parser.lexer)
            /\ Len(parser.lexer) > Len(d.tokens)) =>
            /\ Len(parser.lexer) = Len(d.tokens) + 1
            /\ parser.status # "raised"
            /\ parser.status = "returned" =>
                   /\ parser.result = d.ast
                   /\ parser.token = parser.lexer[Len(d.tokens) + 1]
                   /\ Consumed(parser) = d.tokens

\* C4 happens: λx.x has been parsed and returned with a trailing SYMBOL as
\* the lookahead.
C4_Witness ==
    /\ parser.status = "returned"
    /\ parser.result = Abstraction(Variable("x"), Variable("x"))
    /\ parser.token = Token("SYMBOL", "y")
    /\ Len(parser.lexer) = 5

\* The token types an expression may start with.
First == {"(", "λ", "@", "SYMBOL"}

\* An expression is expected: _expression has been entered (from parse, for
\* either position of an application, or for an abstraction body) and has
\* not dispatched yet.
ExpressionExpected(p) == Running(p, "_expression") /\ Top(p).pc = "enter"

\* p2 is p after a raise of ParserError(expected, type of p's lookahead)
\* that consumed nothing.
Raises(p, p2, expected) ==
    /\ p2.status = "raised"
    /\ p2.error = ParserError(expected, p.token.type)
    /\ p2.token = p.token
    /\ p2.lexer = p.lexer
    /\ p2.consumed = p.consumed

\* C2: whenever an expression is expected and the lookahead's type is none
\* of '(', 'λ', '@', 'SYMBOL' (the end-marker included), the step raises the
\* error with expected '(, λ, @, or SYMBOL' and found that token's type, and
\* the token is not consumed: nothing is pulled from the lexer.
C2_ExpressionMismatch ==
    [][(ExpressionExpected(parser) /\ parser.token.type \notin First) =>
           Raises(parser, parser', "(, λ, @, or SYMBOL")]_vars

\* C2 happens: after ( x the end-marker came where the argument expression
\* was expected.
C2_Witness ==
    /\ parser.status = "raised"
    /\ parser.error = ParserError("(, λ, @, or SYMBOL", "EOF")
    /\ parser.consumed = 2
    /\ parser.lexer[1].type = "("

\* C3: whenever a production requires one token type and the lookahead's
\* type differs, the step raises with expected that type and found the
\* lookahead's type: ')' after the two sub-expressions of an application,
\* 'SYMBOL' after 'λ'/'@', '.' after the bound variable of an abstraction.
C3_RequiredTokenMismatch ==
    [][/\ (/\ Running(parser, "_application")
           /\ Top(parser).pc = "right_expression"
           /\ parser.token.type # ")") =>
               Raises(parser, parser', ")")
       /\ (/\ Running(parser, "_variable")
           /\ parser.stack[Len(parser.stack) - 1].fn = "_abstraction"
           /\ parser.token.type # "SYMBOL") =>
               Raises(parser, parser', "SYMBOL")
       /\ (/\ Running(parser, "_abstraction")
           /\ Top(parser).pc = "variable"
           /\ parser.token.type # ".") =>
               Raises(parser, parser', ".")]_vars

\* C3 happens: ( x y was followed by the end-marker instead of ')'.
C3_Witness ==
    /\ parser.status = "raised"
    /\ parser.error = ParserError(")", "EOF")
    /\ parser.lexer =
           <<Token("(", "("), Token("SYMBOL", "x"), Token("SYMBOL", "y"), EOF>>

\* C5: the first mismatch aborts the whole parse: the step that raises
\* leaves no frame and no AST, keeps the mismatching token as the lookahead
\* and pulls nothing, and after it the parser never changes again.
C5_FirstMismatchAborts ==
    [][parser'.status = "raised" =>
           /\ parser'.result = None
           /\ parser'.ret = None
           /\ parser'.stack = <<>>
           /\ parser'.token = parser.token
           /\ parser'.lexer = parser.lexer
           /\ parser'.consumed = parser.consumed
           /\ parser'.error.found = parser.token.type
           /\ parser.status = "raised" => parser' = parser]_vars

\* C5 happens: a mismatch three calls deep, in ( ( x y . , with tokens left
\* in the stream that are never pulled.
C5_Witness ==
    /\ parser.status = "raised"
    /\ parser.error = ParserError(")", ".")
    /\ parser.token = Token(".", ".")
    /\ Len(parser.lexer) = 5
    /\ parser.lexer[2].type = "("

\* C6: 'λ' and '@' are equivalent spellings: two parsers whose streams
\* differ only in the spelling of lambda introducers are always at the same
\* place, with the same AST on success and, on failure, an error at the same
\* token position with the same expected value.
C6_SpellingsEquivalent ==
    /\ twin.status = parser.status
    /\ twin.stack = parser.stack
    /\ twin.ret = parser.ret
    /\ twin.result = parser.result
    /\ twin.consumed = parser.consumed
    /\ Len(twin.lexer) = Len(parser.lexer)
    /\ parser.status = "raised" =>
           twin.error.expected = parser.error.expected

\* C6 happens: the two parsers returned the same abstraction, one from λx.y
\* and one from @x.y.
C6_Witness ==
    /\ parser.status = "returned"
    /\ twin.status = "returned"
    /\ parser.result = Abstraction(Variable("x"), Variable("y"))
    /\ parser.lexer[1].type = "λ"
    /\ twin.lexer[1].type = "@"

\* C7: one token of lookahead, advancing monotonically: construction pulls
\* exactly one token; always the tokens pulled are the tokens consumed plus
\* one and the lookahead is the token pulled last; a step pulls nothing or
\* exactly the next token of the stream, which becomes the lookahead, and
\* what was pulled is never changed.
C7_OneTokenLookahead ==
    /\ [](/\ Len(parser.lexer) = parser.consumed + 1
          /\ parser.token = parser.lexer[Len(parser.lexer)]
          /\ parser.status = "ready" => Len(parser.lexer) = 1)
    /\ [][\/ parser'.lexer = parser.lexer /\ parser'.token = parser.token
          \/ /\ parser'.lexer = Append(parser.lexer, parser'.token)
             /\ parser'.consumed = parser.consumed + 1]_vars

\* C7 happens: five tokens consumed, the sixth is the lookahead.
C7_Witness ==
    /\ parser.status = "running"
    /\ parser.consumed = 5
    /\ Len(parser.lexer) = 6

\* C8: the body of an abstraction is one full expression starting right
\* after the '.': the call made for the body is a call of _expression at the
\* token after the '.', what it returns derives exactly the tokens from
\* there up to the lookahead, and no derivation of the grammar starts there
\* and runs on through the lookahead, so the body is the longest run that
\* forms an expression.
C8_BodyIsOneFullExpression ==
    \A i \in 1..Len(parser.stack) :
        (parser.stack[i].fn = "_abstraction"
            /\ parser.stack[i].pc = "expression") =>
            LET dot == parser.stack[i].start + 2
                body == SubSeq(parser.lexer, dot + 1, parser.consumed)
            IN  /\ parser.lexer[dot].type = "."
                /\ i < Len(parser.stack) =>
                       /\ parser.stack[i + 1].fn = "_expression"
                       /\ parser.stack[i + 1].start = dot + 1
                /\ i = Len(parser.stack) =>
                       /\ body \in Derivations(parser.ret)
                       /\ \A d \in Derivable :
                              d.tokens # body \o <<parser.token>>

\* C8 happens: in ( λx.x y ) the body call has returned Variable x with y
\* as the lookahead, inside the application.
C8_Witness ==
    /\ Running(parser, "_abstraction")
    /\ Top(parser).pc = "expression"
    /\ Top(parser).start = 2
    /\ parser.ret = Variable("x")
    /\ parser.token = Token("SYMBOL", "y")

\* The end-marker, once pulled, is the last token pulled.
NoPullPastEnd(p) ==
    \A i \in 1..Len(p.lexer) : p.lexer[i] = EOF => i = Len(p.lexer)

\* Between two nested calls of _expression at least one token is consumed.
DescentConsumes(p) ==
    \A i, j \in 1..Len(p.stack) :
        (i < j /\ p.stack[i].fn = "_expression"
            /\ p.stack[j].fn = "_expression") =>
            p.stack[i].start < p.stack[j].start

\* C9: parse() terminates, returning an AST or raising ParserError, and
\* never pulls a token past the first end-marker; every descent into a
\* sub-expression comes after at least one more token was consumed.
C9_Terminates ==
    /\ <>Done(parser)
    /\ [](NoPullPastEnd(parser) /\ DescentConsumes(parser))

\* C9 happens: the parse of ( x ( has ended at the end-marker.
C9_Witness ==
    /\ Done(parser)
    /\ parser.token = EOF
    /\ Len(parser.lexer) = 4
    /\ parser.lexer[3].type = "("

\* C10: the defensive else-branches are never taken: _application is only
\* entered on '(' and _abstraction only on 'λ' or '@', so a ParserError has
\* one of four expected values, and found is the lookahead's type.
C10_DefensiveBranchesUnreachable ==
    /\ (Running(parser, "_application") /\ Top(parser).pc = "enter") =>
           parser.token.type = "("
    /\ (Running(parser, "_abstraction") /\ Top(parser).pc = "enter") =>
           parser.token.type \in {"λ", "@"}
    /\ parser.status = "raised" =>
           /\ parser.error.expected \in
                  {"(, λ, @, or SYMBOL", "SYMBOL", ")", "."}
           /\ parser.error.found = parser.token.type

\* C10 happens: an error with expected '.' was raised, found ')'.
C10_Witness ==
    /\ parser.status = "raised"
    /\ parser.error = ParserError(".", ")")
    /\ parser.token.type = ")"

====
